---- MODULE Spec2Model ----
(***************************************************************************)
(* Model of backend/src/streamlit_app.py: the Streamlit "Deep Deal         *)
(* Research" page.  The script is re-executed top to bottom on every user  *)
(* interaction; one action of the model is one such execution.  Python     *)
(* strings that the script inspects character by character are sequences   *)
(* of one-character strings; strings it only passes along are TLA+ strings. *)
(***************************************************************************)
EXTENDS Integers, Sequences, FiniteSets, TLC

VARIABLES
    fs,                \* the five candidate files of load_deal_data
    started,           \* the script has run at least once in this session
    deal_data,         \* value cached by @st.cache_data for load_deal_data()
    load_escaped,      \* exception that escaped load_deal_data ("none" if none)
    uploaded,          \* state of the st.file_uploader widget
    report_type,       \* sidebar selectbox "Report Type"
    model_option,      \* sidebar selectbox "Select Gemini Model"
    research_effort,   \* sidebar radio "Research Depth"
    include_sources,   \* sidebar checkbox "Include Source Citations"
    detailed_sources,  \* sidebar checkbox "Detailed Source Information"
    investor_idx,      \* index chosen in selectbox "Select Investor Portfolio"
    deal_idx,          \* index chosen in selectbox "Target Company" (0: no option)
    checks,            \* state of the per-section checkboxes of the report type
    agent,             \* the values graph.invoke may return (the agent is opaque)
    view               \* what the last execution of the script produced

vars == <<fs, started, deal_data, load_escaped, uploaded, report_type,
          model_option, research_effort, include_sources, detailed_sources,
          investor_idx, deal_idx, checks, agent, view>>

----------------------------------------------------------------------------
(* Bounds of the model *)

\* Largest number of lines of an agent response body in SpecTitle.
MaxLines == 6

\* Largest number of lines of such a body that are not the plain line.
MaxSpecial == 2

----------------------------------------------------------------------------
(* Python str operations on sequences of characters *)

LowerLetters == <<"a","b","c","d","e","f","g","h","i","j","k","l","m",
                  "n","o","p","q","r","s","t","u","v","w","x","y","z">>
UpperLetters == <<"A","B","C","D","E","F","G","H","I","J","K","L","M",
                  "N","O","P","Q","R","S","T","U","V","W","X","Y","Z">>

IsLowerChar(c) == \E i \in 1..Len(LowerLetters) : LowerLetters[i] = c
IsUpperChar(c) == \E i \in 1..Len(UpperLetters) : UpperLetters[i] = c
IsCased(c) == IsLowerChar(c) \/ IsUpperChar(c)
IsSpaceChar(c) == c \in {" ", "\n", "\t"}

ToUpperChar(c) ==
    IF IsLowerChar(c)
    THEN UpperLetters[CHOOSE i \in 1..Len(LowerLetters) : LowerLetters[i] = c]
    ELSE c
ToLowerChar(c) ==
    IF IsUpperChar(c)
    THEN LowerLetters[CHOOSE i \in 1..Len(UpperLetters) : UpperLetters[i] = c]
    ELSE c

\* s[from:] of Python, 1-based and inclusive.
Drop(s, n) == SubSeq(s, n + 1, Len(s))

\* str.startswith
StartsWith(s, p) == Len(p) <= Len(s) /\ SubSeq(s, 1, Len(p)) = p

\* p in s
Contains(s, p) == \E i \in 0..(Len(s) - Len(p)) : SubSeq(s, i + 1, i + Len(p)) = p

\* str.isupper: at least one cased character and no lower-case one.
IsUpper(s) ==
    /\ \E i \in 1..Len(s) : IsUpperChar(s[i])
    /\ \A i \in 1..Len(s) : ~IsLowerChar(s[i])

\* str.replace(old, new) for a non-empty old: leftmost non-overlapping matches.
RECURSIVE Replace(_, _, _)
Replace(s, old, new) ==
    IF s = <<>> THEN <<>>
    ELSE IF StartsWith(s, old) THEN new \o Replace(Drop(s, Len(old)), old, new)
    ELSE <<Head(s)>> \o Replace(Tail(s), old, new)

\* str.lstrip / str.rstrip / str.strip
RECURSIVE LStrip(_)
LStrip(s) == IF s # <<>> /\ IsSpaceChar(Head(s)) THEN LStrip(Tail(s)) ELSE s
RECURSIVE RStrip(_)
RStrip(s) ==
    IF s # <<>> /\ IsSpaceChar(s[Len(s)]) THEN RStrip(SubSeq(s, 1, Len(s) - 1)) ELSE s
Strip(s) == RStrip(LStrip(s))

\* str.split(sep) for a one-character sep: always at least one piece.
RECURSIVE SplitFrom(_, _, _)
SplitFrom(s, sep, cur) ==
    IF s = <<>> THEN <<cur>>
    ELSE IF Head(s) = sep THEN <<cur>> \o SplitFrom(Tail(s), sep, <<>>)
    ELSE SplitFrom(Tail(s), sep, Append(cur, Head(s)))
Split(s, sep) == SplitFrom(s, sep, <<>>)

\* sep.join(parts)
RECURSIVE Join(_, _)
Join(parts, sep) ==
    IF parts = <<>> THEN <<>>
    ELSE IF Len(parts) = 1 THEN parts[1]
    ELSE parts[1] \o sep \o Join(Tail(parts), sep)

\* str.title: first letter of every run of letters upper-cased, the rest lowered.
TitleCase(s) ==
    [i \in 1..Len(s) |->
        IF i = 1 \/ ~IsCased(s[i - 1]) THEN ToUpperChar(s[i]) ELSE ToLowerChar(s[i])]

----------------------------------------------------------------------------
(* JSON values of the deal catalogue *)

\* A JSON value the script reads from a deal: null, a string or a list of strings.
JNull == [t |-> "null", s |-> <<>>, l |-> <<>>]
JStr(chars) == [t |-> "str", s |-> chars, l |-> <<>>]
JList(items) == [t |-> "list", s |-> <<>>, l |-> items]

\* Python truthiness of a JSON value.
Truthy(v) == (v.t = "str" /\ v.s # <<>>) \/ (v.t = "list" /\ v.l # <<>>)

EmptyCatalog == [portfolios |-> <<>>]

\* A candidate file: absent, present but not JSON, or present with a catalogue.
MissingFile == [exists |-> FALSE, parses |-> FALSE, data |-> EmptyCatalog]
BadFile == [exists |-> TRUE, parses |-> FALSE, data |-> EmptyCatalog]
JsonFile(c) == [exists |-> TRUE, parses |-> TRUE, data |-> c]

----------------------------------------------------------------------------
(* load_deal_data *)

\* possible_paths, in list order; the absolute path is tried after them.
RelativeCandidates == <<1, 2, 3, 4>>
AbsoluteCandidate == 5
Candidates == 1..5

\* open(path) followed by json.load(f): the value, or the exception raised.
OpenAndParse(f) ==
    IF ~f.exists THEN [exc |-> "FileNotFoundError", value |-> EmptyCatalog]
    ELSE IF ~f.parses THEN [exc |-> "JSONDecodeError", value |-> EmptyCatalog]
    ELSE [exc |-> "none", value |-> f.data]

\* The body of the try block: the for loop over possible_paths returns from
\* the first path that os.path.exists accepts; after the loop the absolute
\* path is opened unconditionally.
RECURSIVE TryPaths(_, _)
TryPaths(files, i) ==
    IF i > Len(RelativeCandidates) THEN OpenAndParse(files[AbsoluteCandidate])
    ELSE IF files[RelativeCandidates[i]].exists
         THEN OpenAndParse(files[RelativeCandidates[i]])
         ELSE TryPaths(files, i + 1)

\* Variant: an except clause that names FileNotFoundError only.
CaughtOnlyFileNotFound(exc) == exc = "FileNotFoundError"

\* except Exception: every exception of the try body is caught.
CaughtByExcept(exc) == exc # "none"

\* load_deal_data(): value returned, exception that escapes, st.error shown.
load_deal_data(files) ==
    LET r == TryPaths(files, 1) IN
    IF r.exc = "none"
    THEN [value |-> r.value, escaped |-> "none", messages |-> <<>>]
    ELSE IF CaughtByExcept(r.exc)
    THEN [value |-> EmptyCatalog, escaped |-> "none",
          messages |-> <<"error: Error loading deal data",
                         "error: Current directory",
                         "error: Please make sure the JSON file is at the correct location">>]
    ELSE [value |-> EmptyCatalog, escaped |-> r.exc, messages |-> <<>>]

----------------------------------------------------------------------------
(* Sidebar and report configuration *)

ReportTypes == <<"Deal Summary Report", "Target Company Analysis",
                 "PortCo Company Analysis",
                 "Investment Thesis & Value Creation Strategy">>
ModelOptions == <<"gemini-2.5-flash-preview-04-17", "gemini-2.0-flash",
                  "gemini-2.5-pro-preview-05-06">>
ResearchEfforts == <<"Basic", "Standard", "Comprehensive">>

\* Convert research effort to parameters.
initial_queries(effort) ==
    IF effort = "Basic" THEN 2
    ELSE IF effort = "Comprehensive" THEN 6 ELSE 4
max_loops(effort) ==
    IF effort = "Basic" THEN 2
    ELSE IF effort = "Comprehensive" THEN 10 ELSE 5

\* The keys the script gives include_sections, spelled out as characters.
k_deal_overview ==
    <<"d","e","a","l","_","o","v","e","r","v","i","e","w">>
k_transaction_details ==
    <<"t","r","a","n","s","a","c","t","i","o","n","_","d","e","t","a","i","l","s">>
k_market_analysis ==
    <<"m","a","r","k","e","t","_","a","n","a","l","y","s","i","s">>
k_competitors ==
    <<"c","o","m","p","e","t","i","t","o","r","s">>
k_company_profile ==
    <<"c","o","m","p","a","n","y","_","p","r","o","f","i","l","e">>
k_products_services ==
    <<"p","r","o","d","u","c","t","s","_","s","e","r","v","i","c","e","s">>
k_management_team ==
    <<"m","a","n","a","g","e","m","e","n","t","_","t","e","a","m">>
k_financial_performance ==
    <<"f","i","n","a","n","c","i","a","l","_","p","e","r","f","o","r","m","a","n","c","e">>
k_portco_profile ==
    <<"p","o","r","t","c","o","_","p","r","o","f","i","l","e">>
k_acquisition_strategy ==
    <<"a","c","q","u","i","s","i","t","i","o","n","_","s","t","r","a","t","e","g","y">>
k_integration_synergies ==
    <<"i","n","t","e","g","r","a","t","i","o","n","_","s","y","n","e","r","g","i","e","s">>
k_investment_rationale ==
    <<"i","n","v","e","s","t","m","e","n","t","_","r","a","t","i","o","n","a","l","e">>
k_value_creation_plan ==
    <<"v","a","l","u","e","_","c","r","e","a","t","i","o","n","_","p","l","a","n">>
k_exit_strategy ==
    <<"e","x","i","t","_","s","t","r","a","t","e","g","y">>
k_sources ==
    <<"s","o","u","r","c","e","s">>

\* The keys assigned under each report type, in the order of assignment.
SectionCatalog(rt) ==
    IF rt = "Deal Summary Report"
    THEN <<k_deal_overview, k_transaction_details, k_market_analysis, k_competitors>>
    ELSE IF rt = "Target Company Analysis"
    THEN <<k_company_profile, k_products_services, k_management_team,
           k_financial_performance, k_competitors>>
    ELSE IF rt = "PortCo Company Analysis"
    THEN <<k_portco_profile, k_acquisition_strategy, k_integration_synergies,
           k_competitors>>
    ELSE IF rt = "Investment Thesis & Value Creation Strategy"
    THEN <<k_investment_rationale, k_value_creation_plan, k_exit_strategy,
           k_competitors>>
    ELSE <<>>

Range(seq) == {seq[i] : i \in 1..Len(seq)}

\* Every st.checkbox of a section is created with value=True.
DefaultChecks(rt) == [k \in Range(SectionCatalog(rt)) |-> TRUE]

\* d[key] = value on a dict kept as a sequence of items in insertion order.
DictSet(d, key, value) ==
    IF \E i \in 1..Len(d) : d[i].key = key
    THEN [i \in 1..Len(d) |->
            IF d[i].key = key THEN [key |-> key, include |-> value] ELSE d[i]]
    ELSE Append(d, [key |-> key, include |-> value])

RECURSIVE SectionItems(_, _, _)
SectionItems(cat, chk, d) ==
    IF cat = <<>> THEN d
    ELSE SectionItems(Tail(cat), chk, DictSet(d, Head(cat), chk[Head(cat)]))

\* "Always include sources section if sources are enabled".
WithSourcesFlag(d, inc) == IF inc THEN DictSet(d, k_sources, TRUE) ELSE d

\* include_sections as the script leaves it once the checkboxes are drawn.
include_sections(w) ==
    WithSourcesFlag(SectionItems(SectionCatalog(w.report_type), w.checks, <<>>),
                    w.include_sources)

\* any(include_sections.values())
AnyIncluded(d) == \E i \in 1..Len(d) : d[i].include

---------------------------------------------------------------------------------------------------------------------------------------------------
(* Catalogue lookups of one execution of the script *)

\* dict.get(key, default) on a deal, a function from its present keys.
Get(d, key, default) == IF key \in DOMAIN d THEN d[key] ELSE default

\* The file uploader is drawn when the loaded catalogue has no portfolio.
UploaderShown(w) == Len(w.deal_data.portfolios) = 0

\* deal_data after the "File upload fallback" block.
Data(w) ==
    IF UploaderShown(w) /\ w.uploaded.exists /\ w.uploaded.parses
    THEN w.uploaded.data ELSE w.deal_data

UploadMessages(w) ==
    IF ~UploaderShown(w) THEN <<>>
    ELSE <<"warning: Could not load deal data automatically">> \o
         (IF ~w.uploaded.exists THEN <<>>
          ELSE IF w.uploaded.parses THEN <<"success: Deal data loaded successfully!">>
          ELSE <<"error: Error parsing uploaded file">>)

\* [p["Investor"] for p in portfolios] raises KeyError on a portfolio
\* without that key.
InvestorsRaise(portfolios) ==
    \E i \in 1..Len(portfolios) : "Investor" \notin portfolios[i].keys
Investors(portfolios) == [i \in 1..Len(portfolios) |-> portfolios[i].Investor]

NoInvestorsFound ==
    <<"N","o"," ","i","n","v","e","s","t","o","r","s"," ","f","o","u","n","d">>
InvestorOptions(investors) ==
    IF investors # <<>> THEN investors ELSE <<NoInvestorsFound>>

\* Position of the first element of a non-empty set of positions, 0 for none.
FirstOf(hits) == IF hits = {} THEN 0 ELSE CHOOSE i \in hits : \A j \in hits : i <= j

\* next((p for p in portfolios if p["Investor"] == selected_investor), None):
\* the position of the first match, 0 for None.
FindPortfolio(portfolios, investor) ==
    FirstOf({i \in 1..Len(portfolios) : portfolios[i].Investor = investor})

\* if selected_portfolio and "Deals" in selected_portfolio
HasDealsBranch(portfolios, idx) ==
    /\ idx # 0
    /\ portfolios[idx].keys # {}
    /\ "Deals" \in portfolios[idx].keys

\* [deal["target_company_name"] for deal in deals] raises KeyError on a
\* deal without that key.
DealNamesRaise(ds) ==
    \E j \in 1..Len(ds) : "target_company_name" \notin DOMAIN ds[j]
DealNames(ds) == [j \in 1..Len(ds) |-> ds[j]["target_company_name"]]

\* st.selectbox returns None when it has no option.
SelectboxValue(options, idx) == IF options = <<>> THEN JNull ELSE options[idx]

\* next((deal for deal in deals if name matches), None): position, 0 for None.
FindDeal(names, name) == FirstOf({j \in 1..Len(names) : names[j] = name})

\* A deal that is None or an empty dict is falsy.
NoDeal == [k \in {} |-> JNull]
NoPortfolio == [keys |-> {}, Investor |-> <<>>, Investor_portfolio_url |-> JNull,
                Deals |-> <<>>]

\* The local variables of the script up to the deal selection; a list whose
\* construction raises is left empty and the flag says so.
Locals(w) ==
    LET portfolios == Data(w).portfolios
        inv_raise == InvestorsRaise(portfolios)
        invs == IF inv_raise THEN <<>> ELSE Investors(portfolios)
        options == InvestorOptions(invs)
        investor == options[w.investor_idx]
        pidx == IF inv_raise THEN 0 ELSE FindPortfolio(portfolios, investor)
        branch == HasDealsBranch(portfolios, pidx)
        ds == IF branch THEN portfolios[pidx].Deals ELSE <<>>
        names_raise == DealNamesRaise(ds)
        names == IF names_raise THEN <<>> ELSE DealNames(ds)
        name == SelectboxValue(names, w.deal_idx)
        didx == FindDeal(names, name)
    IN [investors_raise |-> inv_raise,
        investors |-> invs,
        investor_options |-> options,
        selected_investor |-> investor,
        selected_portfolio |-> IF pidx = 0 THEN NoPortfolio ELSE portfolios[pidx],
        has_deals |-> branch,
        deals |-> ds,
        deal_names_raise |-> names_raise,
        deal_names |-> names,
        selected_deal_name |-> name,
        deal_is_none |-> didx = 0,
        selected_deal |-> IF didx = 0 THEN NoDeal ELSE ds[didx]]

\* if selected_deal
DealTruthy(L) == ~L.deal_is_none /\ DOMAIN L.selected_deal # {}

-----
(* Deal details *)

Unknown ==
    <<"U","n","k","n","o","w","n">>
NoDescription ==
    <<"N","o"," ","d","e","s","c","r","i","p","t","i","o","n"," ","a","v","a","i","l","a","b","l","e">>
NotAvailable ==
    <<"N","o","t"," ","a","v","a","i","l","a","b","l","e">>
NoneText ==
    <<"N","o","n","e">>
CommaSpace == <<",", " ">>

\* repr of a list of strings, as an f-string prints it.
ListRepr(items) ==
    <<"[">> \o Join([i \in 1..Len(items) |-> <<"'">> \o items[i] \o <<"'">>],
                    CommaSpace) \o <<"]">>

\* f"{value}"
Format(v) ==
    IF v.t = "null" THEN NoneText
    ELSE IF v.t = "str" THEN v.s
    ELSE ListRepr(v.l)

\* ', '.join(value): TypeError on None; a str is joined character by character.
JoinRaises(v) == v.t = "null"
JoinValue(v) ==
    IF v.t = "list" THEN Join(v.l, CommaSpace)
    ELSE Join([i \in 1..Len(v.s) |-> <<v.s[i]>>], CommaSpace)

Line(label, text) == [label |-> label, text |-> text]

\* Column 1: the two st.write calls under "if selected_deal".
SectorsValue(deal) == Get(deal, "target_sectors", JList(<<Unknown>>))
Col1Raises(deal) == JoinRaises(SectorsValue(deal))
Col1Lines(deal) ==
    <<Line("Sectors", JoinValue(SectorsValue(deal))),
      Line("Location", Format(Get(deal, "target_location", JStr(Unknown))))>>

\* Column 2: the st.markdown block with Company, Country and Business Description.
CountryIsList(deal) == Get(deal, "target_country", JNull).t = "list"
CountryText(deal) ==
    IF CountryIsList(deal)
    THEN JoinValue(Get(deal, "target_country", JList(<<Unknown>>)))
    ELSE Format(Get(deal, "target_country", JStr(Unknown)))

\* if key in selected_deal and selected_deal[key]: st.write(...)
OptionalLine(deal, label, key) ==
    IF key \in DOMAIN deal /\ Truthy(deal[key])
    THEN <<Line(label, Format(deal[key]))>> ELSE <<>>

PortfolioUrlLine(portfolio) ==
    IF "Investor_portfolio_url" \in portfolio.keys
       /\ Truthy(portfolio.Investor_portfolio_url)
    THEN <<Line("Investor Portfolio URL",
                Format(portfolio.Investor_portfolio_url))>>
    ELSE <<>>

Col2Lines(deal, name, portfolio) ==
    <<Line("Company", Format(name)),
      Line("Country", CountryText(deal)),
      Line("Business Description",
           Format(Get(deal, "target_business_description",
                      JStr(NoDescription))))>>
    \o OptionalLine(deal, "Investment Date", "investment_date")
    \o OptionalLine(deal, "Deal Type", "investment_type")
    \o OptionalLine(deal, "Deal Size", "investment_amount")
    \o OptionalLine(deal, "Turnover", "target_turnover")
    \o OptionalLine(deal, "Employees", "target_employee_no")
    \o PortfolioUrlLine(portfolio)
    \o OptionalLine(deal, "Deal URL", "deal_url")

----------------------------------------------------------------------------
(* Prompt assembly *)

Seg(kind, text) == [kind |-> kind, text |-> text]

\* section.replace("_", " ").title()
Humanize(key) == TitleCase(Replace(key, <<"_">>, <<" ">>))

\* Variant: the comprehension without its test on "sources".
SectionSelectedAll(item) == item.include

\* The condition of the selected_sections comprehension.
SectionSelected(item) == item.include /\ item.key # k_sources

\* [humanized key for key, include in include_sections.items() if ...]
RECURSIVE selected_sections(_)
selected_sections(d) ==
    IF d = <<>> THEN <<>>
    ELSE (IF SectionSelected(Head(d)) THEN <<Humanize(Head(d).key)>> ELSE <<>>)
         \o selected_sections(Tail(d))

\* for section in selected_sections: prompt += f"\n- {section}"
Bullets(labels) == [i \in 1..Len(labels) |-> Seg("bullet", labels[i])]

\* The block appended for the Deal Summary Report only.
DealSummaryBlock(rt) ==
    IF rt = "Deal Summary Report"
    THEN <<Seg("deal_summary_requirements", <<>>)>> ELSE <<>>

\* The two British English blocks, appended unconditionally.
LanguageBlocks ==
    <<Seg("mandatory_language_style", <<>>),
      Seg("highest_priority_requirement", <<>>)>>

\* Variant: the detail checkbox alone asks for sources.
SourcesBlockDetailAlone(inc, det) ==
    IF inc \/ det
    THEN <<Seg("sources_cite_with_urls", <<>>),
           Seg(IF det THEN "sources_detailed_information"
                      ELSE "sources_list_at_end", <<>>),
           Seg("sources_final_numbered_section", <<>>)>>
    ELSE <<>>

\* if include_sources: the citation request, the sentence chosen by
\* detailed_sources, and the final "Sources" section request.
SourcesBlock(inc, det) ==
    IF inc
    THEN <<Seg("sources_cite_with_urls", <<>>),
           Seg(IF det THEN "sources_detailed_information"
                      ELSE "sources_list_at_end", <<>>),
           Seg("sources_final_numbered_section", <<>>)>>
    ELSE <<>>

\* Variant: the sources instruction appended before the language blocks.
AssemblePromptSourcesFirst(rt, d, inc, det) ==
    <<[kind |-> "header", text |-> <<>>]>>
    \o [i \in 1..Len(selected_sections(d)) |->
            [kind |-> "bullet", text |-> selected_sections(d)[i]]]
    \o (IF rt = "Deal Summary Report"
        THEN <<[kind |-> "deal_summary_requirements", text |-> <<>>]>> ELSE <<>>)
    \o (IF inc
        THEN <<[kind |-> "sources_cite_with_urls", text |-> <<>>],
               [kind |-> IF det THEN "sources_detailed_information"
                                ELSE "sources_list_at_end", text |-> <<>>],
               [kind |-> "sources_final_numbered_section", text |-> <<>>]>>
        ELSE <<>>)
    \o <<[kind |-> "mandatory_language_style", text |-> <<>>],
          [kind |-> "highest_priority_requirement", text |-> <<>>]>>

\* The prompt, in the order the script appends to it.
AssemblePrompt(rt, d, inc, det) ==
    <<Seg("header", <<>>)>>
    \o Bullets(selected_sections(d))
    \o DealSummaryBlock(rt)
    \o LanguageBlocks
    \o SourcesBlock(inc, det)

\* What the header interpolates and what graph.invoke receives.
NoSubject ==
    [report_type |-> "", company |-> JNull, deal |-> <<>>,
     investor |-> <<>>, portfolio_url |-> JNull]
NoRequest ==
    [subject |-> NoSubject, prompt |-> <<>>, max_research_loops |-> 0,
     initial_search_query_count |-> 0, reasoning_model |-> ""]
Request(w, L) ==
    [subject |->
        [report_type |-> w.report_type,
         company |-> L.selected_deal_name,
         deal |-> L.selected_deal,
         investor |-> L.selected_portfolio.Investor,
         portfolio_url |->
            IF "Investor_portfolio_url" \in L.selected_portfolio.keys
            THEN L.selected_portfolio.Investor_portfolio_url
            ELSE JStr(NotAvailable)],
     prompt |-> AssemblePrompt(w.report_type, include_sections(w),
                               w.include_sources, w.detailed_sources),
     max_research_loops |-> max_loops(w.research_effort),
     initial_search_query_count |-> initial_queries(w.research_effort),
     reasoning_model |-> w.model_option]

----------------------------------------------------------------------------
(* Result post-processing *)

\* What graph.invoke may return: None, or a dict with some keys.
AgentNone == [is_none |-> TRUE, keys |-> {}, messages |-> <<>>]
AgentDict(keys, messages) == [is_none |-> FALSE, keys |-> keys, messages |-> messages]

\* if state and "messages" in state
StateUsable(st) == ~st.is_none /\ st.keys # {} /\ "messages" \in st.keys

\* state["messages"][-1] raises IndexError on an empty list.
LastMessageRaises(st) == st.messages = <<>>
LastMessage(st) == st.messages[Len(st.messages)]

\* for line in lines[:5]
TitleScanLines == 5

\* line.startswith('# ') or line.isupper() or investor in line
LooksLikeTitle(line, investor) ==
    StartsWith(line, <<"#", " ">>) \/ IsUpper(line) \/ Contains(line, investor)

\* line.replace('# ', '').replace('#', '').strip()
CleanTitle(line) == Strip(Replace(Replace(line, <<"#", " ">>, <<>>), <<"#">>, <<>>))

\* Variant: the loop over all lines instead of lines[:5].
FirstLinesAll(lines, n) == lines

\* lines[:n]
FirstLines(lines, n) == SubSeq(lines, 1, IF Len(lines) < n THEN Len(lines) ELSE n)

\* The for loop with its break: the first line that looks like a title.
RECURSIVE ScanTitle(_, _, _)
ScanTitle(lines, investor, fallback) ==
    IF lines = <<>> THEN fallback
    ELSE IF LooksLikeTitle(Head(lines), investor) THEN JStr(CleanTitle(Head(lines)))
    ELSE ScanTitle(Tail(lines), investor, fallback)

ExtractTitle(response, investor, fallback) ==
    ScanTitle(FirstLines(Split(Strip(response), "\n"), TitleScanLines),
              investor, fallback)

---------------------------------------------------------------------------------------------------------------------------------------------------
(* One execution of the script *)

NoDownload == [offered |-> FALSE, title |-> JNull, body |-> <<>>,
               company |-> JNull, report_type |-> ""]

View(error, messages, widgets, details) ==
    [error |-> error, messages |-> messages, widgets |-> widgets,
     details |-> details, clicked |-> FALSE, invoked |-> FALSE,
     request |-> NoRequest, state |-> AgentNone, rendered |-> FALSE,
     title |-> JNull,
     body |-> <<>>, download |-> NoDownload]

InitialView == View("none", <<>>, {}, <<>>)

\* Widgets drawn before the investors list is built.
TopWidgets(w) == {"sidebar"} \cup (IF UploaderShown(w) THEN {"uploader"} ELSE {})

\* Messages shown before the sidebar: those of the cached load_deal_data
\* call and those of the upload fallback.
TopMessages(w) == load_deal_data(fs).messages \o UploadMessages(w)

\* The "Target Company" selectbox is drawn.
DealSelectShown(w, L) ==
    /\ w.load_escaped = "none"
    /\ ~L.investors_raise
    /\ L.has_deals
    /\ ~L.deal_names_raise

\* The section checkboxes are drawn: the run reaches them under "if selected_deal".
SectionsShown(w) ==
    LET L == Locals(w)
    IN DealSelectShown(w, L) /\ DealTruthy(L) /\ ~Col1Raises(L.selected_deal)

\* First option of the "Target Company" selectbox, 0 when it is not drawn or empty.
DefaultDealIdx(w) ==
    LET L == Locals([w EXCEPT !.deal_idx = 1])
    IN IF DealSelectShown(w, L) /\ Len(L.deals) > 0 THEN 1 ELSE 0

\* The "Generate Research Report" handler once include_sections has a
\* selected section: build the prompt, call the agent, post-process.
Generate(w, L, v) ==
    LET st == w.state
        called == [v EXCEPT !.clicked = TRUE, !.invoked = TRUE,
                            !.request = Request(w, L), !.state = st]
    IN IF StateUsable(st)
       THEN IF LastMessageRaises(st)
            THEN [called EXCEPT !.error = "IndexError"]
            ELSE LET response == LastMessage(st)
                     title == ExtractTitle(response, L.selected_portfolio.Investor,
                                           L.selected_deal_name)
                 IN [called EXCEPT
                        !.rendered = TRUE, !.title = title, !.body = response,
                        !.download = [offered |-> TRUE, title |-> title,
                                      body |-> response,
                                      company |-> L.selected_deal_name,
                                      report_type |-> w.report_type]]
       ELSE [called EXCEPT
                !.messages = Append(v.messages,
                    "error: Failed to generate the report. Please try again.")]

\* The submission is rejected: no section of include_sections is included.
NothingSelected(d) == ~AnyIncluded(d)

\* if st.button("Generate Research Report"): include_sections is bound only
\* when the checkboxes were drawn, under "if selected_deal".
ButtonHandler(w, L, v) ==
    IF ~DealTruthy(L)
    THEN [v EXCEPT !.clicked = TRUE, !.error = "NameError"]
    ELSE IF NothingSelected(include_sections(w))
    THEN [v EXCEPT !.clicked = TRUE,
             !.messages = Append(v.messages,
                 "error: Please select at least one section to include in the report")]
    ELSE Generate(w, L, v)

\* The rest of the script once its local variables are known.
RenderWith(w, L, clicked) ==
    IF w.load_escaped # "none" THEN View(w.load_escaped, <<>>, {}, <<>>)
    ELSE IF L.investors_raise
    THEN View("KeyError", TopMessages(w), TopWidgets(w), <<>>)
    ELSE IF ~L.has_deals
    THEN View("none",
              Append(TopMessages(w), "warning: No deals found for the selected investor."),
              TopWidgets(w) \cup {"investor"}, <<>>)
    ELSE IF L.deal_names_raise
    THEN View("KeyError", TopMessages(w), TopWidgets(w) \cup {"investor"}, <<>>)
    ELSE IF DealTruthy(L) /\ Col1Raises(L.selected_deal)
    THEN View("TypeError", TopMessages(w), TopWidgets(w) \cup {"investor", "deal"}, <<>>)
    ELSE LET v == View("none", TopMessages(w),
                       TopWidgets(w) \cup {"investor", "deal", "button"}
                           \cup (IF DealTruthy(L) THEN {"sections"} ELSE {}),
                       IF DealTruthy(L)
                       THEN Col1Lines(L.selected_deal)
                            \o Col2Lines(L.selected_deal, L.selected_deal_name,
                                         L.selected_portfolio)
                       ELSE <<>>)
         IN IF clicked THEN ButtonHandler(w, L, v) ELSE v

\* The whole script, with the button reporting `clicked`.
Render(w, clicked) == LET L == Locals(w) IN RenderWith(w, L, clicked)

-----
(* Catalogues, uploads and agent responses the model draws its inputs from *)

Portfolio(keys, investor, url, ds) ==
    [keys |-> keys, Investor |-> investor, Investor_portfolio_url |-> url,
     Deals |-> ds]

BGF == <<"B","G","F">>
TK == <<"T","K">>
GC == <<"G","C">>
Acme == <<"A","c","m","e">>
Widget == <<"W","i","d","g","e","t">>
UK == <<"U","K">>
FR == <<"F","R">>
SomeText == <<"x">>

DealFull ==
    [f \in {"target_company_name", "target_sectors", "target_location",
            "target_country", "target_business_description", "investment_date",
            "investment_type", "investment_amount", "target_turnover",
            "target_employee_no", "deal_url"} |->
        IF f = "target_company_name" THEN JStr(Acme)
        ELSE IF f = "target_sectors" THEN JList(<<SomeText, SomeText>>)
        ELSE IF f = "target_country" THEN JList(<<UK, FR>>)
        ELSE JStr(SomeText)]
DealSparse == [f \in {"target_company_name"} |-> JStr(Widget)]
MainCatalog ==
    [portfolios |->
        <<Portfolio({"Investor", "Investor_portfolio_url", "Deals"}, BGF,
                    JStr(SomeText), <<DealFull, DealSparse>>),
          Portfolio({"Investor", "Deals"}, TK, JNull, <<>>),
          Portfolio({"Investor"}, GC, JNull, <<>>)>>]
UploadCatalog ==
    [portfolios |-> <<Portfolio({"Investor", "Deals"}, TK, JNull, <<>>)>>]

AllMissing == [c \in Candidates |-> MissingFile]
MainFs == {AllMissing, [AllMissing EXCEPT ![3] = JsonFile(MainCatalog)]}
UploadFiles == {BadFile, JsonFile(UploadCatalog)}

HeadingBody == <<"#", " ", "T", "\n", "a">>
PlainBody == <<"a", "\n", "b">>
AgentOk(body) == AgentDict({"messages"}, <<PlainBody, body>>)
MainResponses ==
    {AgentNone, AgentDict({"other"}, <<>>), AgentDict({"messages"}, <<>>),
     AgentOk(HeadingBody)}

----------------------------------------------------------------------------
(* The session: one action per user interaction, each a run of the script *)

\* The values one run of the script reads: the cached catalogue, the widget
\* states and `state`, the value graph.invoke returns if the run calls it.
Session ==
    [deal_data |-> deal_data, load_escaped |-> load_escaped,
     uploaded |-> uploaded, report_type |-> report_type,
     model_option |-> model_option, research_effort |-> research_effort,
     include_sources |-> include_sources, detailed_sources |-> detailed_sources,
     investor_idx |-> investor_idx, deal_idx |-> deal_idx, checks |-> checks,
     state |-> AgentNone]

InitWidgets ==
    /\ started = FALSE
    /\ deal_data = EmptyCatalog
    /\ load_escaped = "none"
    /\ uploaded = MissingFile
    /\ report_type = ReportTypes[1]
    /\ model_option = ModelOptions[1]
    /\ research_effort = ResearchEfforts[2]
    /\ include_sources = TRUE
    /\ detailed_sources = FALSE
    /\ investor_idx = 1
    /\ deal_idx = 0
    /\ checks = DefaultChecks(ReportTypes[1])
    /\ view = InitialView

Init ==
    /\ fs \in MainFs
    /\ agent = MainResponses
    /\ InitWidgets

\* A selectbox whose options changed shows its first option.
FirstDeal(w) == [w EXCEPT !.deal_idx = DefaultDealIdx(w)]

\* A widget that is not drawn in a run loses its state: the section
\* checkboxes come back with value=True.
KeepChecks(w) ==
    IF SectionsShown(w) THEN w ELSE [w EXCEPT !.checks = DefaultChecks(w.report_type)]

\* The script runs on session w and the widgets keep the values it read.
RunOn(w, clicked) ==
    /\ started' = TRUE
    /\ fs' = fs
    /\ deal_data' = w.deal_data
    /\ load_escaped' = w.load_escaped
    /\ uploaded' = w.uploaded
    /\ report_type' = w.report_type
    /\ model_option' = w.model_option
    /\ research_effort' = w.research_effort
    /\ include_sources' = w.include_sources
    /\ detailed_sources' = w.detailed_sources
    /\ investor_idx' = w.investor_idx
    /\ deal_idx' = w.deal_idx
    /\ checks' = w.checks
    /\ agent' = agent
    /\ view' = Render(w, clicked)

Run(session, clicked) == \E w \in {session} : RunOn(w, clicked)

\* First run of the session: load_deal_data() is executed and cached.
Start ==
    /\ ~started
    /\ LET r == load_deal_data(fs)
       IN Run(KeepChecks(FirstDeal([Session EXCEPT !.deal_data = r.value,
                                                   !.load_escaped = r.escaped])),
              FALSE)

SidebarShown == started /\ "sidebar" \in view.widgets

Upload(f) ==
    /\ started /\ "uploader" \in view.widgets
    /\ f # uploaded
    /\ Run(KeepChecks(FirstDeal([Session EXCEPT !.uploaded = f,
                                                !.investor_idx = 1])), FALSE)

\* The checkboxes of the new report type: "Competitor Analysis" is the same
\* widget under every report type, the others are new and start checked.
ChecksFor(rt, old) ==
    [k \in Range(SectionCatalog(rt)) |-> IF k \in DOMAIN old THEN old[k] ELSE TRUE]

SelectReportType(rt) ==
    /\ SidebarShown
    /\ rt # report_type
    /\ Run(KeepChecks([Session EXCEPT !.report_type = rt,
                                      !.checks = ChecksFor(rt, checks)]), FALSE)

SelectModel(m) ==
    /\ SidebarShown
    /\ m # model_option
    /\ Run([Session EXCEPT !.model_option = m], FALSE)

SelectEffort(e) ==
    /\ SidebarShown
    /\ e # research_effort
    /\ Run([Session EXCEPT !.research_effort = e], FALSE)

ToggleIncludeSources ==
    /\ SidebarShown
    /\ Run([Session EXCEPT !.include_sources = ~include_sources], FALSE)

ToggleDetailedSources ==
    /\ SidebarShown
    /\ Run([Session EXCEPT !.detailed_sources = ~detailed_sources], FALSE)

SelectInvestor(i) ==
    /\ started /\ "investor" \in view.widgets
    /\ i \in 1..Len(Locals(Session).investor_options) /\ i # investor_idx
    /\ Run(KeepChecks(FirstDeal([Session EXCEPT !.investor_idx = i])), FALSE)

SelectDeal(j) ==
    /\ started /\ "deal" \in view.widgets
    /\ j \in 1..Len(Locals(Session).deal_names) /\ j # deal_idx
    /\ Run(KeepChecks([Session EXCEPT !.deal_idx = j]), FALSE)

ToggleSection(k) ==
    /\ started /\ "sections" \in view.widgets
    /\ k \in DOMAIN checks
    /\ Run([Session EXCEPT !.checks = [checks EXCEPT ![k] = ~checks[k]]], FALSE)

\* A click on "Generate Research Report"; r is what the agent would answer.
Submit(r) ==
    /\ started /\ "button" \in view.widgets
    /\ Run([Session EXCEPT !.state = r], TRUE)

\* Largest numbers of portfolios and of deals in the catalogues of the model.
MaxPortfolios == 3
MaxDeals == 2

UploadFile == \E f \in UploadFiles \cup {MissingFile} : Upload(f)
ChooseReportType == \E i \in 1..Len(ReportTypes) : SelectReportType(ReportTypes[i])
ChooseModel == \E i \in 1..Len(ModelOptions) : SelectModel(ModelOptions[i])
ChooseEffort == \E i \in 1..Len(ResearchEfforts) : SelectEffort(ResearchEfforts[i])
ChooseInvestor == \E i \in 1..MaxPortfolios : SelectInvestor(i)
ChooseDeal == \E j \in 1..MaxDeals : SelectDeal(j)
ToggleSectionBox == \E k \in DOMAIN checks : ToggleSection(k)
ClickGenerate == \E r \in agent : Submit(r)

Next ==
    \/ Start
    \/ UploadFile
    \/ ChooseReportType
    \/ ChooseModel
    \/ ChooseEffort
    \/ ToggleIncludeSources
    \/ ToggleDetailedSources
    \/ ChooseInvestor
    \/ ChooseDeal
    \/ ToggleSectionBox
    \/ ClickGenerate

Spec == Init /\ [][Next]_vars

----------------------------------------------------------------------------
(* SpecLoad: load_deal_data over every assignment of the candidate files *)

LoadFiles == {MissingFile, BadFile, JsonFile(MainCatalog), JsonFile(UploadCatalog)}

InitLoad ==
    /\ fs \in [Candidates -> LoadFiles]
    /\ agent = MainResponses
    /\ InitWidgets

NextLoad == Start

SpecLoad == InitLoad /\ [][NextLoad]_vars

----------------------------------------------------------------------------
(* SpecDeal: one portfolio with one deal, over the deals with absent and   *)
(* null fields                                                             *)

DealFields ==
    {"target_company_name", "target_sectors", "target_location",
     "target_country", "target_business_description", "investment_date",
     "investment_type", "investment_amount", "target_turnover",
     "target_employee_no", "deal_url"}

\* What a field of a generated deal may be: absent, null, a string, a list.
FieldShapes(f) ==
    IF f \in {"target_company_name", "investment_date"} THEN {"absent", "null", "str"}
    ELSE IF f = "target_sectors" THEN {"absent", "null", "list"}
    ELSE IF f = "target_country" THEN {"absent", "null", "str", "list"}
    ELSE {"absent", "str"}

ShapeValue(shape) ==
    IF shape = "null" THEN JNull
    ELSE IF shape = "str" THEN JStr(UK)
    ELSE JList(<<UK, FR>>)

DealOfShape(sh) ==
    [f \in {g \in DealFields : sh[g] # "absent"} |-> ShapeValue(sh[f])]

DealCatalog(d) ==
    [portfolios |-> <<Portfolio({"Investor", "Deals"}, BGF, JNull, <<d>>)>>]

InitDeal ==
    /\ \E name \in FieldShapes("target_company_name"),
          sectors \in FieldShapes("target_sectors"),
          country \in FieldShapes("target_country"),
          date \in FieldShapes("investment_date"),
          present \in SUBSET (DealFields \ {"target_company_name", "target_sectors",
                                            "target_country", "investment_date"}) :
          fs = [AllMissing EXCEPT ![1] = JsonFile(DealCatalog(DealOfShape(
                  [f \in DealFields |->
                      IF f = "target_company_name" THEN name
                      ELSE IF f = "target_sectors" THEN sectors
                      ELSE IF f = "target_country" THEN country
                      ELSE IF f = "investment_date" THEN date
                      ELSE IF f \in present THEN "str" ELSE "absent"])))]
    /\ agent = {AgentOk(HeadingBody)}
    /\ InitWidgets

NextDeal ==
    \/ Start
    \/ ClickGenerate

SpecDeal == InitDeal /\ [][NextDeal]_vars

----------------------------------------------------------------------------
(* SpecTitle: title extraction over agent response bodies of up to        *)
(* MaxLines lines                                                          *)

PlainLine == <<"a","b">>
SpecialLines ==
    {<<>>,
     <<"#"," ","T">>,
     <<"U","P">>,
     <<"a","B","G","F">>,
     <<"#","a">>,
     <<" ","#"," ","U"," ">>}

\* The line sequences with at most MaxSpecial lines that are not PlainLine.
LineSeqs ==
    UNION {
        UNION {
            {[i \in 1..n |-> IF i \in P THEN a[i] ELSE PlainLine] :
                a \in [P -> SpecialLines]} :
            P \in {Q \in SUBSET (1..n) : Cardinality(Q) <= MaxSpecial}} :
        n \in 1..MaxLines}

BodySpace == {Join(ls, <<"\n">>) : ls \in LineSeqs}

InitTitle ==
    /\ fs = [AllMissing EXCEPT ![1] = JsonFile(MainCatalog)]
    /\ agent \in {{AgentOk(body)} : body \in BodySpace}
    /\ InitWidgets

NextTitle ==
    \/ Start
    \/ ClickGenerate

SpecTitle == InitTitle /\ [][NextTitle]_vars

----------------------------------------------------------------------------
(* Properties *)

HasMessage(m) == \E i \in 1..Len(view.messages) : view.messages[i] = m
PromptKinds == [i \in 1..Len(view.request.prompt) |-> view.request.prompt[i].kind]
Positions(kinds) == {i \in 1..Len(PromptKinds) : PromptKinds[i] \in kinds}
IsBullet(seg) == seg.kind = "bullet"
IsChecked(k) == checks[k]

\* C1: a click on "Generate Research Report" with no non-citation section
\* checked is rejected with the visible error and graph.invoke is not
\* called, for every report type and every setting of the two citation
\* checkboxes.
C1_EmptySelectionRejected ==
    (view.clicked /\ "sections" \in view.widgets /\ \A k \in DOMAIN checks : ~checks[k])
        => /\ ~view.invoked
           /\ HasMessage("error: Please select at least one section to include in the report")

\* C2: when graph.invoke was called and its result is unusable (None, no
\* "messages" key, or an empty messages list), the run shows "Failed to
\* generate the report. Please try again.", with no title, no report, no
\* download and no uncaught exception.
C2_UnusableResponseFails ==
    (view.invoked
        /\ (view.state.is_none \/ "messages" \notin view.state.keys
            \/ view.state.messages = <<>>))
        => /\ view.error = "none"
           /\ HasMessage("error: Failed to generate the report. Please try again.")
           /\ ~view.rendered
           /\ view.title = JNull
           /\ ~view.download.offered

\* The deal of the one-deal catalogue of SpecDeal.
TheDeal == fs[1].data.portfolios[1].Deals[1]
Shows(label, text) ==
    \E i \in 1..Len(view.details) :
        view.details[i].label = label /\ view.details[i].text = text

\* C3: for a deal with any of its fields absent (or null), the deal-name
\* list, the detail view and the prompt are built without an uncaught
\* exception, and each absent field that has a placeholder shows it.
C3_AbsentFieldsDegrade ==
    started =>
        /\ view.error = "none"
        /\ "target_sectors" \notin DOMAIN TheDeal => Shows("Sectors", Unknown)
        /\ "target_location" \notin DOMAIN TheDeal => Shows("Location", Unknown)
        /\ "target_country" \notin DOMAIN TheDeal => Shows("Country", Unknown)
        /\ "target_business_description" \notin DOMAIN TheDeal
              => Shows("Business Description", NoDescription)

\* C4: load_deal_data returns the catalogue of the earliest candidate (the
\* four relative paths in list order, then the absolute path) that parses,
\* so a candidate that exists but does not parse does not hide a later one.
C4_FirstParseableWins ==
    started =>
        \A i \in Candidates :
            (fs[i].parses /\ \A j \in 1..(i - 1) : ~fs[j].parses)
                => deal_data = fs[i].data

\* C5: when no candidate yields a parseable catalogue, whatever mix of
\* missing and malformed files, load_deal_data returns {"portfolios": []}
\* and no exception reaches its caller.
C5_NoParseableGivesEmpty ==
    (started /\ \A i \in Candidates : ~fs[i].parses)
        => /\ deal_data = [portfolios |-> <<>>]
           /\ load_escaped = "none"
           /\ view.error = "none"

C5_Witness ==
    /\ started
    /\ fs[1] = MissingFile /\ fs[2] = BadFile /\ fs[5] = BadFile
    /\ \A i \in Candidates : ~fs[i].parses
    /\ deal_data = [portfolios |-> <<>>]

\* The lines of the trimmed body shown by the last run.
C6_Lines == Split(Strip(view.body), "\n")
\* A line qualifies: it starts with the heading marker "# ", or it is
\* fully upper-case, or it contains the selected investor's name.
C6_Qualifies(line) ==
    \/ Len(line) >= 2 /\ line[1] = "#" /\ line[2] = " "
    \/ /\ \E i \in 1..Len(line) : line[i] \in Range(UpperLetters)
       /\ \A i \in 1..Len(line) : line[i] \notin Range(LowerLetters)
    \/ \E i \in 1..Len(line), j \in 0..Len(line) :
          SubSeq(line, i, j) = view.request.subject.investor
C6_QualifyingAmongFirstFive ==
    {i \in 1..Len(C6_Lines) : i <= 5 /\ C6_Qualifies(C6_Lines[i])}

C7_Catalog ==
    IF report_type = "Deal Summary Report"
    THEN <<k_deal_overview, k_transaction_details, k_market_analysis, k_competitors>>
    ELSE IF report_type = "Target Company Analysis"
    THEN <<k_company_profile, k_products_services, k_management_team,
           k_financial_performance, k_competitors>>
    ELSE IF report_type = "PortCo Company Analysis"
    THEN <<k_portco_profile, k_acquisition_strategy, k_integration_synergies,
           k_competitors>>
    ELSE <<k_investment_rationale, k_value_creation_plan, k_exit_strategy,
           k_competitors>>
C7_Bullets == SelectSeq(view.request.prompt, IsBullet)
C7_Checked == SelectSeq(C7_Catalog, IsChecked)

\* C7: the prompt sent to the agent has exactly one bullet per checked
\* section of the report type's catalogue, in catalogue order, and no
\* bullet for an unchecked section, a section of another report type or
\* the "sources" flag.
C7_BulletsMatchCheckedSections ==
    view.invoked =>
        /\ Len(C7_Bullets) = Len(C7_Checked)
        /\ \A i \in 1..Len(C7_Bullets) : C7_Bullets[i].text = Humanize(C7_Checked[i])
        /\ \A i, j \in 1..Len(C7_Bullets) :
              C7_Bullets[i].text = C7_Bullets[j].text => i = j

C7_Witness ==
    /\ view.invoked
    /\ report_type = "Target Company Analysis"
    /\ include_sources
    /\ checks[k_company_profile] /\ ~checks[k_products_services]
    /\ ~checks[k_management_team] /\ checks[k_financial_performance]
    /\ checks[k_competitors]
    /\ Len(C7_Bullets) = 3

C8_CitationMode ==
    IF ~include_sources THEN "none"
    ELSE IF detailed_sources THEN "detailed" ELSE "summary"
C8_SourceKinds ==
    {"sources_cite_with_urls", "sources_detailed_information",
     "sources_list_at_end", "sources_final_numbered_section"}
C8_IsSourcing(seg) == seg.kind \in C8_SourceKinds
C8_Sourcing ==
    LET segs == SelectSeq(view.request.prompt, C8_IsSourcing)
    IN [i \in 1..Len(segs) |-> segs[i].kind]

\* C8: the sourcing instruction of the prompt follows the citation mode:
\* none gives no sourcing instruction, summary asks for the Sources list
\* with URLs at the end and not for per-source detail, detailed asks for
\* publication date, author and reliability of each source; for every
\* combination of the two citation checkboxes and every report type.
C8_SourcingFollowsCitationMode ==
    view.invoked =>
        /\ C8_CitationMode = "none" => C8_Sourcing = <<>>
        /\ C8_CitationMode = "summary" =>
              C8_Sourcing = <<"sources_cite_with_urls", "sources_list_at_end",
                              "sources_final_numbered_section">>
        /\ C8_CitationMode = "detailed" =>
              C8_Sourcing = <<"sources_cite_with_urls", "sources_detailed_information",
                              "sources_final_numbered_section">>

C8_Witness ==
    /\ view.invoked
    /\ ~include_sources /\ detailed_sources
    /\ report_type = "PortCo Company Analysis"
    /\ C8_Sourcing = <<>>

\* C9: every prompt passed to the agent has the "MANDATORY LANGUAGE STYLE"
\* block immediately followed by the "HIGHEST PRIORITY REQUIREMENT" block,
\* once each, after the section bullets and the Deal Summary block and
\* before any sourcing instruction, whatever the other settings.
C9_LanguageDirectivePlaced ==
    view.invoked =>
        LET m == Positions({"mandatory_language_style"})
            h == Positions({"highest_priority_requirement"})
        IN /\ Cardinality(m) = 1 /\ Cardinality(h) = 1
           /\ \A i \in m : (i + 1) \in h
           /\ \A i \in Positions({"header", "bullet", "deal_summary_requirements"}) :
                 \A j \in m : i < j
           /\ \A i \in Positions(C8_SourceKinds) : \A j \in h : j < i

C9_Witness ==
    /\ view.invoked
    /\ report_type = "Deal Summary Report"
    /\ include_sources /\ detailed_sources
    /\ model_option = "gemini-2.5-pro-preview-05-06"
    /\ research_effort = "Comprehensive"
    /\ Positions({"bullet"}) # {}
    /\ Positions({"deal_summary_requirements"}) # {}

\* C10: whenever the "Generate Research Report" click is handled, a deal is
\* selected and include_sections is bound, so the handler raises no
\* NameError; for a portfolio whose Deals list is empty a click neither
\* fails nor calls the agent.
C10_SubmitHasDealAndSections ==
    view.clicked =>
        /\ ~Locals(Session).deal_is_none
        /\ "sections" \in view.widgets
        /\ view.error # "NameError"

====
